---- MODULE Spec2Model ----
(***************************************************************************)
(* Model of examples/setup_claude_desktop.py: create_claude_config() and   *)
(* the __main__ block that calls it.                                       *)
(*                                                                         *)
(* A JSON value (the Python object json.load returns) is a record          *)
(*   [t, kv, a]: t is its type ("obj", "str", "list", "num", "null"),      *)
(*   kv the members of an object in insertion order (Python dicts keep     *)
(*   it), a the literal text of a non-object value.                        *)
(* The text of a file is a sequence of tokens [k, s]; json.dump and        *)
(* json.load are modelled as the serializer and the parser between the     *)
(* two.  Indentation is not modelled.                                      *)
(***************************************************************************)
EXTENDS Integers, Sequences, FiniteSets, TLC

\* ------------------------------------------------------------- JSON values

Atom(t, a) == [t |-> t, kv |-> <<>>, a |-> a]
Obj(kv) == [t |-> "obj", kv |-> kv, a |-> ""]
KV(k, v) == [k |-> k, v |-> v]
Str(a) == Atom("str", a)
List(a) == Atom("list", a)
Num(a) == Atom("num", a)
Null == Atom("null", "null")
EmptyDict == Obj(<<>>)

\* k in d, for a dict d
HasKey(d, k) == \E i \in 1..Len(d.kv) : d.kv[i].k = k

\* d[k], for a dict d that has k
GetItem(d, k) == d.kv[CHOOSE i \in 1..Len(d.kv) : d.kv[i].k = k].v

\* a dict that does not keep insertion order: a new key goes first
SetItemFront(d, k, v) ==
  IF HasKey(d, k)
  THEN Obj([i \in 1..Len(d.kv) |-> IF d.kv[i].k = k THEN KV(k, v) ELSE d.kv[i]])
  ELSE Obj(<<KV(k, v)>> \o d.kv)

\* d[k] = v: an existing key keeps its place, a new one goes last
SetItem(d, k, v) ==
  IF HasKey(d, k)
  THEN Obj([i \in 1..Len(d.kv) |-> IF d.kv[i].k = k THEN KV(k, v) ELSE d.kv[i]])
  ELSE Obj(Append(d.kv, KV(k, v)))

RECURSIVE UpdateFrom(_, _, _)
UpdateFrom(d, e, i) ==
  IF i > Len(e.kv) THEN d
  ELSE UpdateFrom(SetItem(d, e.kv[i].k, e.kv[i].v), e, i + 1)

\* a merge that replaces the mapping by the new entries
UpdateReplace(d, e) == e

\* a merge in which an entry already present wins
RECURSIVE KeepFrom(_, _, _)
KeepFrom(d, e, i) ==
  IF i > Len(e.kv) THEN d
  ELSE KeepFrom(IF HasKey(d, e.kv[i].k) THEN d ELSE SetItem(d, e.kv[i].k, e.kv[i].v),
                e, i + 1)
UpdateKeepExisting(d, e) == KeepFrom(d, e, 1)

\* d.update(e), for dicts d and e
Update(d, e) == UpdateFrom(d, e, 1)

Keys(d) == {d.kv[i].k : i \in 1..Len(d.kv)}

\* ------------------------------------------------------------------ tokens

Tok(k, s) == [k |-> k, s |-> s]
LB == Tok("punct", "{")
RB == Tok("punct", "}")
COLON == Tok("punct", ":")
COMMA == Tok("punct", ",")
\* a byte sequence that is not UTF-8
BadByte == Tok("badbyte", "0xff")
\* the zero byte the file system puts in a hole
Nul == Tok("nul", "0x00")
\* a word that is no JSON literal
Junk(s) == Tok("junk", s)

\* json.dump(value, f, indent=2): members in insertion order
RECURSIVE Dumps(_), DumpMembers(_, _)
DumpMembers(kv, i) ==
  IF i > Len(kv) THEN <<>>
  ELSE (IF i > 1 THEN <<COMMA>> ELSE <<>>)
       \o <<Tok("str", kv[i].k), COLON>> \o Dumps(kv[i].v)
       \o DumpMembers(kv, i + 1)
Dumps(v) ==
  IF v.t = "obj" THEN <<LB>> \o DumpMembers(v.kv, 1) \o <<RB>>
  ELSE <<Tok(v.t, v.a)>>

\* the JSON decoder: [ok, v, n], n the index after the value parsed
ParseFail == [ok |-> FALSE, v |-> Null, n |-> 0]
RECURSIVE ParseValue(_, _), ParseMembers(_, _, _)
ParseValue(s, i) ==
  IF i > Len(s) THEN ParseFail
  ELSE IF s[i].k \in {"str", "list", "num", "null"}
    THEN [ok |-> TRUE, v |-> Atom(s[i].k, s[i].s), n |-> i + 1]
  ELSE IF s[i] = LB
    THEN IF i + 1 <= Len(s) /\ s[i + 1] = RB
         THEN [ok |-> TRUE, v |-> EmptyDict, n |-> i + 2]
         ELSE ParseMembers(s, i + 1, EmptyDict)
  ELSE ParseFail
ParseMembers(s, i, acc) ==
  IF i + 1 > Len(s) \/ s[i].k # "str" \/ s[i + 1] # COLON THEN ParseFail
  ELSE LET r == ParseValue(s, i + 2) IN
       IF ~r.ok \/ r.n > Len(s) THEN ParseFail
       ELSE LET acc2 == SetItem(acc, s[i].s, r.v) IN
            IF s[r.n] = COMMA THEN ParseMembers(s, r.n + 1, acc2)
            ELSE IF s[r.n] = RB THEN [ok |-> TRUE, v |-> acc2, n |-> r.n + 1]
            ELSE ParseFail

\* json.loads(text): one value and nothing after it, else JSONDecodeError
Loads(s) ==
  LET r == ParseValue(s, 1) IN
  IF r.ok /\ r.n = Len(s) + 1 THEN [ok |-> TRUE, v |-> r.v]
  ELSE [ok |-> FALSE, v |-> Null]

\* reading the file as UTF-8 text succeeds
Decodable(s) == \A i \in 1..Len(s) : s[i] # BadByte

\* ------------------------------------------------------- the tool's entries

ServersKey == "mcpServers"
FullId == "authentik-full"
DiagId == "authentik-diag"

Env(token) ==
  Obj(<<KV("AUTHENTIK_BASE_URL", Str("https://your-authentik-instance.com")),
        KV("AUTHENTIK_TOKEN", Str(token))>>)
FullEntry ==
  Obj(<<KV("command", Str("uvx")), KV("args", List("[authentik-mcp]")),
        KV("env", Env("your-api-token-here"))>>)
DiagEntry ==
  Obj(<<KV("command", Str("uvx")), KV("args", List("[authentik-diag-mcp]")),
        KV("env", Env("your-readonly-token-here"))>>)
NewEntries == Obj(<<KV(FullId, FullEntry), KV(DiagId, DiagEntry)>>)
\* config = {"mcpServers": {...}}
DefaultConfig == Obj(<<KV(ServersKey, NewEntries)>>)

\* a merge that keeps only the recognized key of the parsed document
MergeDropSiblings(existing_config, cfg) ==
  IF existing_config.t # "obj" THEN [exc |-> "TypeError", config |-> cfg]
  ELSE LET servers == IF HasKey(existing_config, ServersKey)
                      THEN GetItem(existing_config, ServersKey) ELSE EmptyDict
       IN IF servers.t # "obj" THEN [exc |-> "AttributeError", config |-> cfg]
          ELSE [exc |-> "none",
                config |-> Obj(<<KV(ServersKey,
                                    Update(servers, GetItem(cfg, ServersKey)))>>)]

\* lines 58-62: merge the tool's servers into the parsed document.
\* [exc, config]: the exception raised ("none" when none) and the new config
MergeExisting(existing_config, cfg) ==
  LET new == GetItem(cfg, ServersKey) IN
  IF existing_config.t \in {"num", "null"}
    \* line 58: argument of type 'int' / 'NoneType' is not iterable
    THEN [exc |-> "TypeError", config |-> cfg]
  ELSE IF existing_config.t \in {"str", "list"}
    \* line 59 (no item assignment with a str key) or line 61 (indices
    \* must be integers), whichever side of the "in" test is taken
    THEN [exc |-> "TypeError", config |-> cfg]
  ELSE LET e1 == IF ~HasKey(existing_config, ServersKey)
                 THEN SetItem(existing_config, ServersKey, EmptyDict)
                 ELSE existing_config
           servers == GetItem(e1, ServersKey)
       IN IF servers.t # "obj"
          \* line 61: 'list' object has no attribute 'update'
          THEN [exc |-> "AttributeError", config |-> cfg]
          ELSE [exc |-> "none",
                config |-> SetItem(e1, ServersKey, Update(servers, new))]

\* lines 53-65 on the text read: [exc, warned, config]
LoadAndMerge(data, cfg) ==
  IF ~Decodable(data)
    THEN [exc |-> "UnicodeDecodeError", warned |-> FALSE, config |-> cfg]
  ELSE LET r == Loads(data) IN
    IF ~r.ok THEN [exc |-> "none", warned |-> TRUE, config |-> cfg]
    ELSE LET m == MergeExisting(r.v, cfg) IN
         [exc |-> m.exc, warned |-> FALSE, config |-> m.config]

\* --------------------------------------------------------------- the state

Procs == {"A", "B"}

\* times the script is started again after a completed run
MaxRuns == 1
\* most server entries in an initial configuration file
MaxServers == 2
\* tokens the buffered writer hands to the file system in one write
ChunkSize == 32

NoFile == [exists |-> FALSE, data |-> <<>>]
File(data) == [exists |-> TRUE, data |-> data]

VARIABLES
  config_dir,   \* the directory exists
  config_file,  \* the file: [exists, data]
  pc,           \* where each invocation is
  config,       \* each invocation's `config`
  pos,          \* the offset of each invocation's write descriptor
  stdout,       \* what each invocation has printed
  exc,          \* the exception that ended an invocation, "none" if none
  loaded,       \* history: the file as the invocation read it
  before,       \* history: directory and file when the invocation started
  intact,       \* history: no other invocation touched the file since this one opened it
  lastWriter,   \* history: the invocation that wrote the file last
  runs          \* history: how many times the script was started again

vars == <<config_dir, config_file, pc, config, pos, stdout, exc, loaded,
          before, intact, lastWriter, runs>>

\* ------------------------------------------------------ initial file texts

OtherEntry == Obj(<<KV("command", Str("other"))>>)
ServerIds == {"foo", FullId, DiagId}
OldValues(id) ==
  IF id = FullId THEN {OtherEntry, FullEntry}
  ELSE IF id = DiagId THEN {OtherEntry, DiagEntry}
  ELSE {OtherEntry}
OldPairs == UNION {{KV(id, v) : v \in OldValues(id)} : id \in ServerIds}
ServerMaps ==
  UNION {{Obj(kv) : kv \in {s \in [1..n -> OldPairs] :
                              \A i, j \in 1..n : i # j => s[i].k # s[j].k}}
         : n \in 0..MaxServers}
ServerValues == ServerMaps \cup {List("[]"), Str("s"), Num("3"), Null}
Theme == KV("theme", Str("dark"))
ObjectDocs ==
  {Obj(<<>>), Obj(<<Theme>>)}
  \cup UNION {{Obj(<<KV(ServersKey, m)>>),
               Obj(<<Theme, KV(ServersKey, m)>>),
               Obj(<<KV(ServersKey, m), Theme>>)} : m \in ServerValues}
ScalarDocs ==
  {List("[]"), List("[mcpServers]"), Str("mcpServers"), Str("x"), Num("1"), Null}
\* an object text that names "mcpServers" twice
DuplicateText ==
  <<LB, Tok("str", ServersKey), COLON>> \o Dumps(Obj(<<KV("foo", OtherEntry)>>))
  \o <<COMMA, Tok("str", ServersKey), COLON>> \o Dumps(NewEntries)
  \o <<COMMA>> \o <<Tok("str", "theme"), COLON, Tok("str", "dark"), RB>>
BrokenTexts ==
  {<<>>,
   <<Junk("not"), Junk("valid"), Junk("json")>>,
   <<BadByte>>,
   SubSeq(Dumps(DefaultConfig), 1, ChunkSize),
   Dumps(EmptyDict) \o <<Junk("x")>>}
InitTexts ==
  {Dumps(v) : v \in ObjectDocs \cup ScalarDocs} \cup BrokenTexts \cup {DuplicateText}

Init ==
  /\ config_dir \in BOOLEAN
  /\ config_file \in
       IF config_dir THEN {NoFile} \cup {File(t) : t \in InitTexts} ELSE {NoFile}
  /\ pc = [p \in Procs |-> "idle"]
  /\ config = [p \in Procs |-> EmptyDict]
  /\ pos = [p \in Procs |-> 0]
  /\ stdout = [p \in Procs |-> <<>>]
  /\ exc = [p \in Procs |-> "none"]
  /\ loaded = [p \in Procs |-> NoFile]
  /\ before = [p \in Procs |-> [dir |-> FALSE, file |-> NoFile]]
  /\ intact = [p \in Procs |-> FALSE]
  /\ lastWriter = "none"
  /\ runs = 0

\* ------------------------------------------------------------- the actions

\* an uncaught exception: the traceback ends the process
Raise(p, e) ==
  /\ pc' = [pc EXCEPT ![p] = "failed"]
  /\ exc' = [exc EXCEPT ![p] = e]

\* a mkdir that makes nothing
MkdirNothing(dir) == dir

\* mkdir(parents=True, exist_ok=True) leaves the directory in place
MkdirResult(dir) == TRUE

\* an open for writing that keeps the old content
NoTruncate(data) == data

\* open(config_file, 'w') on a file that holds `data`: truncated
TruncateResult(data) == <<>>

\* the part of `text` a descriptor at offset `at` writes next
NextChunk(text, at) ==
  SubSeq(text, at + 1, IF at + ChunkSize < Len(text) THEN at + ChunkSize ELSE Len(text))

\* write(chunk) at offset `at` of a file holding `data`: bytes under the
\* chunk are replaced, bytes after it stay, a gap before it reads as zeros
WriteAt(data, at, chunk) ==
  LET end == at + Len(chunk)
      n == IF Len(data) > end THEN Len(data) ELSE end
  IN [i \in 1..n |-> IF i > at /\ i <= end THEN chunk[i - at]
                     ELSE IF i <= Len(data) THEN data[i]
                     ELSE Nul]

\* a main block that leaves example_usage() out
NoUsageOutput == <<"closing">>

\* example_usage() and the closing lines, lines 133-139
UsageOutput == <<"usage", "closing">>

\* the script is started again after a run that completed
Rerun(p) ==
  /\ pc[p] = "done"
  /\ runs < MaxRuns
  /\ runs' = runs + 1
  /\ pc' = [pc EXCEPT ![p] = "idle"]
  /\ stdout' = [stdout EXCEPT ![p] = <<>>]
  /\ config' = [config EXCEPT ![p] = EmptyDict]
  /\ pos' = [pos EXCEPT ![p] = 0]
  /\ loaded' = [loaded EXCEPT ![p] = NoFile]
  /\ UNCHANGED <<config_dir, config_file, exc, before, intact, lastWriter>>

\* lines 126-131 and 19-49: the script starts, the directory is made,
\* `config` is the template
Mkdir(p) ==
  /\ pc[p] = "idle"
  /\ stdout' = [stdout EXCEPT ![p] = <<"banner">>]
  /\ before' = [before EXCEPT ![p] = [dir |-> config_dir, file |-> config_file]]
  /\ \/ /\ config_dir' = (config_dir \/ MkdirResult(config_dir))
        /\ config' = [config EXCEPT ![p] = DefaultConfig]
        /\ pc' = [pc EXCEPT ![p] = "exists"]
        /\ UNCHANGED exc
     \/ /\ ~config_dir
        /\ Raise(p, "OSError")
        /\ UNCHANGED <<config_dir, config>>
  /\ UNCHANGED <<config_file, pos, loaded, intact, lastWriter, runs>>

\* line 52: config_file.exists()
Exists(p) ==
  /\ pc[p] = "exists"
  /\ pc' = [pc EXCEPT ![p] = IF config_file.exists THEN "load" ELSE "open"]
  /\ UNCHANGED <<config_dir, config_file, config, pos, stdout, exc, loaded,
                 before, intact, lastWriter, runs>>

\* lines 53-65: read, parse and merge the existing file
Load(p) ==
  /\ pc[p] = "load"
  /\ \/ LET r == LoadAndMerge(config_file.data, config[p]) IN
        /\ loaded' = [loaded EXCEPT ![p] = config_file]
        /\ IF r.exc # "none"
           THEN Raise(p, r.exc) /\ UNCHANGED <<config, stdout>>
           ELSE /\ pc' = [pc EXCEPT ![p] = "open"]
                /\ config' = [config EXCEPT ![p] = r.config]
                /\ stdout' = [stdout EXCEPT ![p] =
                                IF r.warned THEN Append(@, "warning") ELSE @]
                /\ UNCHANGED exc
     \/ \* open(config_file, 'r') is refused
        /\ Raise(p, "OSError")
        /\ UNCHANGED <<config, stdout, loaded>>
  /\ UNCHANGED <<config_dir, config_file, pos, before, intact, lastWriter, runs>>

\* line 68: open(config_file, 'w') creates or truncates the file
OpenWrite(p) ==
  /\ pc[p] = "open"
  /\ IF ~config_dir
     THEN /\ Raise(p, "FileNotFoundError")
          /\ UNCHANGED <<config_file, pos, intact>>
     ELSE \/ /\ config_file' = File(TruncateResult(config_file.data))
             /\ pos' = [pos EXCEPT ![p] = 0]
             /\ intact' = [q \in Procs |-> q = p]
             /\ pc' = [pc EXCEPT ![p] = "write"]
             /\ UNCHANGED exc
          \/ /\ Raise(p, "OSError")
             /\ UNCHANGED <<config_file, pos, intact>>
  /\ UNCHANGED <<config_dir, config, stdout, loaded, before, lastWriter, runs>>

\* line 69: json.dump and the close that ends the with block; the text
\* reaches the file one buffer at a time
Write(p) ==
  /\ pc[p] = "write"
  /\ \/ LET text == Dumps(config[p])
            chunk == NextChunk(text, pos[p])
            data == WriteAt(config_file.data, pos[p], chunk)
            end == pos[p] + Len(chunk)
        IN /\ config_file' = File(data)
           /\ pos' = [pos EXCEPT ![p] = end]
           /\ intact' = [q \in Procs |-> q = p /\ intact[p]]
           /\ lastWriter' = p
           /\ pc' = [pc EXCEPT ![p] = IF end = Len(text) THEN "report" ELSE @]
           /\ UNCHANGED exc
     \/ \* the write is refused (no space left)
        /\ Raise(p, "OSError")
        /\ UNCHANGED <<config_file, pos, intact, lastWriter>>
  /\ UNCHANGED <<config_dir, config, stdout, loaded, before, runs>>

\* lines 71-77 and 133-139: the path and the next steps are printed,
\* create_claude_config returns, example_usage() and the closing lines
Finish(p) ==
  /\ pc[p] = "report"
  /\ stdout' = [stdout EXCEPT ![p] = Append(@, "written") \o UsageOutput]
  /\ pc' = [pc EXCEPT ![p] = "done"]
  /\ UNCHANGED <<config_dir, config_file, config, pos, exc, loaded, before,
                 intact, lastWriter, runs>>

Run(p) ==
  \/ Mkdir(p)
  \/ Exists(p)
  \/ Load(p)
  \/ OpenWrite(p)
  \/ Write(p)
  \/ Finish(p)

\* one invocation at a time, run MaxRuns times
Next == Run("A") \/ Rerun("A")
Spec == Init /\ [][Next]_vars

\* two invocations at once
ConcNext == \E p \in Procs : Run(p)
ConcSpec == Init /\ [][ConcNext]_vars

\* ------------------------------------------------------------- properties

Started(p) == pc[p] # "idle"
\* line 69 and the close after it are done
Completed(p) == pc[p] \in {"report", "done"}
Printed(p, m) == \E i \in 1..Len(stdout[p]) : stdout[p][i] = m
\* the existing file was read and parsed
ReadOk(p) ==
  /\ Started(p)
  /\ loaded[p].exists
  /\ Decodable(loaded[p].data)
  /\ Loads(loaded[p].data).ok
Existing(p) == Loads(loaded[p].data).v
\* the existing file is an object with a mapping under "mcpServers"
ReadServers(p) ==
  /\ ReadOk(p)
  /\ Existing(p).t = "obj"
  /\ HasKey(Existing(p), ServersKey)
  /\ GetItem(Existing(p), ServersKey).t = "obj"
\* the file as it is now parses to an object with a mapping under "mcpServers"
WrittenServersOk ==
  /\ config_file.exists
  /\ Loads(config_file.data).ok
  /\ Loads(config_file.data).v.t = "obj"
  /\ HasKey(Loads(config_file.data).v, ServersKey)
  /\ GetItem(Loads(config_file.data).v, ServersKey).t = "obj"
Written == Loads(config_file.data).v
WrittenServers == GetItem(Written, ServersKey)
FreshText == Dumps(DefaultConfig)

\* C1: after a completed run on a file that parsed to an object with a
\* mapping under "mcpServers", every server entry of that mapping other than
\* "authentik-full" and "authentik-diag" is in the written file, unchanged.
C1_Preservation ==
  (Completed("A") /\ ReadServers("A")) =>
    /\ WrittenServersOk
    /\ \A id \in Keys(GetItem(Existing("A"), ServersKey)) \ {FullId, DiagId} :
         /\ HasKey(WrittenServers, id)
         /\ GetItem(WrittenServers, id) = GetItem(GetItem(Existing("A"), ServersKey), id)
C1_Witness ==
  /\ Completed("A")
  /\ ReadServers("A")
  /\ HasKey(GetItem(Existing("A"), ServersKey), "foo")
  /\ HasKey(GetItem(Existing("A"), ServersKey), FullId)

\* C2: after every completed run the written file's "mcpServers" holds
\* "authentik-full" and "authentik-diag" with the tool's values, whatever
\* the existing file held under them.
C2_Overwrite ==
  Completed("A") =>
    /\ WrittenServersOk
    /\ HasKey(WrittenServers, FullId)
    /\ GetItem(WrittenServers, FullId) = FullEntry
    /\ HasKey(WrittenServers, DiagId)
    /\ GetItem(WrittenServers, DiagId) = DiagEntry
C2_Witness ==
  /\ Completed("A")
  /\ ReadServers("A")
  /\ HasKey(GetItem(Existing("A"), ServersKey), FullId)
  /\ GetItem(GetItem(Existing("A"), ServersKey), FullId) = OtherEntry

\* the existing file was read and its content is not valid JSON
ReadInvalid(p) ==
  /\ Started(p)
  /\ loaded[p].exists
  /\ ~(Decodable(loaded[p].data) /\ Loads(loaded[p].data).ok)

\* C3: when the content of the existing file is not valid JSON the run does
\* not fail on it: a warning is printed and the file written is exactly
\* {"mcpServers": newEntries}.
C3_CorruptionRecovery ==
  ReadInvalid("A") =>
    /\ exc["A"] \in {"none", "OSError"}
    /\ Printed("A", "warning")
    /\ Completed("A") => config_file = File(FreshText)

\* C4: when neither the file nor its directory exists before the run, the
\* directory is there before the file is opened for writing, and the file
\* written holds exactly {"mcpServers": newEntries}.
C4_FreshCreation ==
  (Started("A") /\ ~before["A"].dir) =>
    /\ ~before["A"].file.exists
    /\ exc["A"] # "FileNotFoundError"
    /\ pc["A"] \in {"write", "report", "done"} => config_dir
    /\ config_file.exists => config_dir
    /\ Completed("A") => config_file = File(FreshText)
C4_Witness == Completed("A") /\ ~before["A"].dir /\ runs = 0

\* C5: a second run with the same new entries, made after a first run that
\* completed, leaves the file as the first run left it.
C5_Idempotence ==
  (runs >= 1 /\ Completed("A")) => config_file = before["A"].file
C5_Witness ==
  /\ runs >= 1
  /\ Completed("A")
  /\ WrittenServersOk
  /\ HasKey(WrittenServers, "foo")
  /\ HasKey(Written, "theme")

\* C6: a run fails only through a file system error: when the existing file
\* parses as JSON, whatever the value, and no file system operation fails,
\* the run merges and completes.
C6_BinaryFailureSplit ==
  (ReadOk("A") /\ pc["A"] = "failed") => exc["A"] \in {"OSError", "FileNotFoundError"}

\* C7 as claimed: at every point of a run the file holds the content it had
\* before the run or the complete serialized final configuration.
C7_NoPartialState ==
  Started("A") =>
    \/ config_file = before["A"].file
    \/ /\ pc["A"] \in {"write", "report", "done", "failed"}
       /\ config_file = File(Dumps(config["A"]))

\* C7 as amended: at every point of a run the file holds the content it had
\* before the run or the first pos tokens of the serialized final
\* configuration (none right after the open); it holds all of them once the
\* write is done, and nothing changes it before the open.
C7_PrefixState ==
  Started("A") =>
    /\ \/ config_file = before["A"].file
       \/ /\ pc["A"] \in {"write", "report", "done", "failed"}
          /\ config_file = File(SubSeq(Dumps(config["A"]), 1, pos["A"]))
    /\ pc["A"] \in {"exists", "load", "open"} => config_file = before["A"].file
    /\ Completed("A") => config_file = File(Dumps(config["A"]))
C7_Witness ==
  /\ pc["A"] = "failed"
  /\ before["A"].file.exists
  /\ pos["A"] > 0
  /\ pos["A"] < Len(Dumps(config["A"]))
  /\ config_file # before["A"].file

\* C8 as claimed: once both invocations have completed, the file holds
\* exactly the configuration of the one that wrote last.
C8_LastWriterWins ==
  (Completed("A") /\ Completed("B")) =>
    config_file = File(Dumps(config[lastWriter]))

\* C8 as amended: once both invocations have completed, the file holds
\* exactly the configuration of the one that wrote last if the other neither
\* truncated nor wrote the file after the last writer's truncating open.
C8_LastWriterWinsIfIntact ==
  \A p \in Procs :
    (Completed("A") /\ Completed("B") /\ intact[p]) =>
      /\ lastWriter = p
      /\ config_file = File(Dumps(config[p]))
C8_Witness ==
  /\ Completed("A")
  /\ Completed("B")
  /\ intact["B"]
  /\ config["A"] # config["B"]
  /\ loaded["B"].exists
  /\ ~Loads(loaded["B"].data).ok
  /\ before["B"].file.exists
  /\ Loads(before["B"].file.data).ok

\* C9 as claimed: every run that has ended has printed the usage examples,
\* a run that raised an error included.
C9_UsageUnconditional ==
  pc["A"] \in {"done", "failed"} => Printed("A", "usage")

\* C9 as amended: a run has printed the usage examples exactly when
\* create_claude_config has returned and the main block has gone on; a run
\* that stopped on an uncaught error has not printed them.
C9_UsageIffReturned ==
  /\ Printed("A", "usage") <=> pc["A"] = "done"
  /\ pc["A"] = "failed" <=> exc["A"] # "none"
C9_Witness ==
  /\ pc["A"] = "failed"
  /\ exc["A"] = "OSError"
  /\ pos["A"] > 0
  /\ ~Printed("A", "usage")

\* C10: after a completed run on a file that parsed to an object, every
\* top-level key other than "mcpServers" is in the written file with its
\* value unchanged, and "mcpServers" is the only key the run may add.
C10_SiblingKeys ==
  (Completed("A") /\ ReadOk("A") /\ Existing("A").t = "obj") =>
    /\ WrittenServersOk
    /\ Keys(Written) = Keys(Existing("A")) \cup {ServersKey}
    /\ \A k \in Keys(Existing("A")) \ {ServersKey} :
         GetItem(Written, k) = GetItem(Existing("A"), k)
C10_Witness ==
  /\ Completed("A")
  /\ ReadOk("A")
  /\ Existing("A").t = "obj"
  /\ HasKey(Existing("A"), "theme")
  /\ ~HasKey(Existing("A"), ServersKey)

====
